---- MODULE Spec2Model ----
(***************************************************************************)
(* Model of src/app.py: the /analyze request handler (validation, listing, *)
(* per-transaction detail fetch and classification), the swap classifier   *)
(* (is_dex_interaction, analyze_swap_direction) and the pattern matcher    *)
(* (detect_sandwich_patterns).                                             *)
(*                                                                         *)
(* Python values whose dynamic type matters are records [type, v]: the     *)
(* type field is the Python type name, v the payload.  A function that can *)
(* raise returns [raised, value]: raised is "" on a normal return and the  *)
(* exception class name otherwise.                                         *)
(***************************************************************************)
EXTENDS Integers, Sequences, FiniteSets, TLC

VARIABLES
    pc,                      \* position of the handler / driver
    request,                 \* the JSON body of the POST (data)
    token_address,           \* analyze: token_address
    lookback_limit,          \* analyze: lookback_limit (raw, then clamped)
    transactions,            \* analyze: transactions (the listing)
    idx,                     \* analyze: position of the for loop, 0-based
    processed_transactions,  \* analyze: processed_transactions
    potential_sandwiches,    \* result of detect_sandwich_patterns
    listCalls,               \* limit of every listing call made to the provider
    detailCalls,             \* every detail call made to the provider, in order
    response                 \* what the handler returned

vars == <<pc, request, token_address, lookback_limit, transactions, idx,
          processed_transactions, potential_sandwiches, listCalls, detailCalls,
          response>>

----------------------------------------------------------------------------
(* Python values *)

None == [type |-> "NoneType", v |-> 0]

PyInt(n) == [type |-> "int", v |-> n]

PyStr(s) == [type |-> "str", v |-> s]

PyList == [type |-> "list", v |-> 0]

\* isinstance(x, (int, float)); also what the - operator of line 403 accepts
IsNumber(x) == x.type = "int"

\* Python ==  on the values above (no value equals one of another type)
PyEq(a, b) == a.type = b.type /\ a.v = b.v

\* Python truthiness: None, "" and 0 are falsy
Truthy(x) ==
    CASE x.type = "NoneType" -> FALSE
      [] x.type = "str" -> x.v # ""
      [] x.type = "int" -> x.v # 0
      [] OTHER -> TRUE

Return(x) == [raised |-> "", value |-> x]

Raise(e) == [raised |-> e, value |-> <<>>]

Abs(n) == IF n < 0 THEN -n ELSE n

\* a key absent from a JSON object
Missing == [type |-> "missing", v |-> 0]

Min(a, b) == IF a < b THEN a ELSE b

\* the handler's view of the world before a request arrives
NoRequest == [tokenAddress |-> Missing, lookbackLimit |-> Missing]

\* the handler has not returned; code is the HTTP status once it has, raised
\* the exception that left the handler uncaught ("" if none)
NoResponse ==
    [code |-> 0, status |-> "", error |-> "", raised |-> "",
     stats |-> [totalTransactions |-> 0, dexTransactions |-> 0,
                potentialAttacks |-> 0]]

----------------------------------------------------------------------------
(* Configuration, src/app.py 63-65 *)

\* CONFIG['default_lookback_limit']; 100 is the default of lines 111 and 202
DEFAULT_LOOKBACK_LIMIT == 100

\* CONFIG['max_lookback_limit']
MAX_LOOKBACK_LIMIT == 1000

\* CONFIG['dex_programs']
DEX_PROGRAM_IDS == {"DexProgram1", "DexProgram2"}

----------------------------------------------------------------------------
(* The provider's answers, as the two fetch functions see them.            *)
(* A transaction detail (tx_data) is                                       *)
(*   [successful, instructions, tokenTransfers]                            *)
(* with instructions a sequence of programIds and tokenTransfers           *)
(* [isList, items]; a transfer is [isDict, mint, transferType, tokenAmount]*)
(* with tokenAmount [isDict, amount].                                      *)

\* fetch_token_transactions without its except clause
FetchTokenTransactionsUncaught(outcome) ==
    CASE outcome.kind = "RequestException" -> Raise("RequestException")
      [] outcome.kind = "not_a_list" -> Return(<<>>)
      [] OTHER -> Return(outcome.items)

\* fetch_token_transactions, lines 118-129: what is returned for the HTTP
\* outcome of the listing call
fetch_token_transactions(outcome) ==
    CASE outcome.kind = "RequestException" -> Return(<<>>)
      [] outcome.kind = "not_a_list" -> Return(<<>>)
      [] OTHER -> Return(outcome.items)

\* fetch_transaction_details, lines 86-107: None unless the answer is a
\* non-empty list whose first element is a dictionary
fetch_transaction_details(outcome) ==
    CASE outcome.kind = "RequestException" -> None
      [] outcome.kind = "no_data" -> None
      [] outcome.kind = "not_a_dict" -> None
      [] OTHER -> [type |-> "dict", v |-> outcome.tx_data]

\* is_dex_interaction, lines 131-141
is_dex_interaction(tx_data) ==
    \E n \in DOMAIN tx_data.instructions :
        tx_data.instructions[n] \in DEX_PROGRAM_IDS

\* lines 174-180: the amount of a transfer
AmountOf(transfer) ==
    IF transfer.tokenAmount.isDict THEN transfer.tokenAmount.amount ELSE "0"

\* the iteration with the legs the other way round: the target token is
\* recorded as the input leg, any other mint as the output leg
TransferStepTargetAsInput(legs, transfer, token) ==
    IF ~transfer.isDict THEN legs
    ELSE IF PyEq(transfer.mint, token)
    THEN IF AmountOf(transfer) = "0" THEN legs
         ELSE IF transfer.transferType \in {"transfer", "mintTo", "burn"}
         THEN [legs EXCEPT !.input_token = token]
         ELSE legs
    ELSE [legs EXCEPT !.output_token = transfer.mint]

\* lines 168-190: one iteration of the loop over token_transfers;
\* legs is [input_token, output_token]
TransferStep(legs, transfer, token) ==
    IF ~transfer.isDict THEN legs
    ELSE IF PyEq(transfer.mint, token)
    THEN IF AmountOf(transfer) = "0" THEN legs
         ELSE IF transfer.transferType \in {"transfer", "mintTo"}
         THEN [legs EXCEPT !.output_token = token]
         ELSE IF transfer.transferType \in {"burn"}
         THEN [legs EXCEPT !.output_token = token]
         ELSE legs
    ELSE [legs EXCEPT !.input_token = transfer.mint]

RECURSIVE ScanTransfers(_, _, _, _)
ScanTransfers(items, n, legs, token) ==
    IF n > Len(items) THEN legs
    ELSE ScanTransfers(items, n + 1, TransferStep(legs, items[n], token), token)

\* lines 192-200: the decision on the two legs
DirectionOf(legs, token) ==
    IF Truthy(legs.input_token) /\ PyEq(legs.output_token, token)
    THEN PyStr("buy")
    ELSE IF PyEq(legs.input_token, token) /\ Truthy(legs.output_token)
            /\ ~PyEq(legs.output_token, token)
    THEN PyStr("sell")
    ELSE None

\* analyze_swap_direction, lines 143-200, on a dictionary tx_data
analyze_swap_direction(tx_data, token) ==
    IF ~tx_data.successful THEN None
    ELSE IF ~tx_data.tokenTransfers.isList THEN None
    ELSE DirectionOf(
             ScanTransfers(tx_data.tokenTransfers.items, 1,
                           [input_token |-> None, output_token |-> None], token),
             token)

\* lines 366-372: processed_tx (the details field, which nothing reads, is
\* left out)
ProcessedTx(tx, tx_data, token) ==
    [signature |-> tx.signature,
     timestamp |-> tx.timestamp,
     isDex |-> is_dex_interaction(tx_data),
     direction |-> analyze_swap_direction(tx_data, token)]

\* int(x), line 343
RECURSIVE DigitsValue(_, _, _)
DigitsValue(chars, n, acc) ==
    IF n > Len(chars) THEN acc
    ELSE DigitsValue(chars, n + 1,
             10 * acc + (CHOOSE d \in 0..9 :
                            <<"0", "1", "2", "3", "4", "5", "6", "7", "8", "9">>[d + 1]
                            = chars[n]))

IsDigit(c) == c \in {"0", "1", "2", "3", "4", "5", "6", "7", "8", "9"}

\* int() of a string, given as its sequence of characters: an optional sign
\* and one or more digits, ValueError otherwise
IntOfChars(chars) ==
    LET signed == Len(chars) > 0 /\ chars[1] \in {"-", "+"}
        digits == IF signed THEN Tail(chars) ELSE chars
    IN  IF Len(digits) = 0 \/ \E n \in DOMAIN digits : ~IsDigit(digits[n])
        THEN Raise("ValueError")
        ELSE IF signed /\ chars[1] = "-"
        THEN Return(-DigitsValue(digits, 1, 0))
        ELSE Return(DigitsValue(digits, 1, 0))

\* int(x): an int is itself, a string is parsed, None and a list raise
\* TypeError
IntOf(x) ==
    CASE x.type = "int" -> Return(x.v)
      [] x.type = "str" -> IntOfChars(x.v)
      [] OTHER -> Raise("TypeError")

\* line 343: min(int(lookback_limit), MAX_LOOKBACK_LIMIT)
ClampLimit(x) ==
    LET n == IntOf(x)
    IN  IF n.raised # "" THEN n ELSE Return(Min(n.value, MAX_LOOKBACK_LIMIT))

----------------------------------------------------------------------------
(* detect_sandwich_patterns, src/app.py 393-430 *)

\* the 30 of line 406
SandwichWindow == 30

\* the filter without its direction test
IsDexEntryIgnoringDirection(t) == t.isDex

\* line 396: the filter  t["isDex"] and t["direction"]
IsDexEntry(t) == t.isDex /\ Truthy(t.direction)

\* line 396: dex_transactions
DexTransactions(txs) == SelectSeq(txs, IsDexEntry)

\* the window test with >= for >
WithinWindowExclusive(time_diff_prev, time_diff_next) ==
    ~(time_diff_prev >= SandwichWindow \/ time_diff_next >= SandwichWindow)

\* line 406, negated: the triple is not skipped
WithinWindow(time_diff_prev, time_diff_next) ==
    ~(time_diff_prev > SandwichWindow \/ time_diff_next > SandwichWindow)

\* the pattern test without its prev_tx conjuncts
PatternOfIgnoringPrev(prev_tx, curr_tx, next_tx) ==
    IF PyEq(curr_tx.direction, PyStr("buy"))
       /\ PyEq(next_tx.direction, PyStr("sell"))
    THEN "buy-victim-sell"
    ELSE IF PyEq(curr_tx.direction, PyStr("sell"))
            /\ PyEq(next_tx.direction, PyStr("buy"))
    THEN "sell-victim-buy"
    ELSE ""

\* lines 410-428: the pattern test; "" when neither branch is taken
PatternOf(prev_tx, curr_tx, next_tx) ==
    IF PyEq(prev_tx.direction, PyStr("buy"))
       /\ PyEq(curr_tx.direction, PyStr("buy"))
       /\ PyEq(next_tx.direction, PyStr("sell"))
    THEN "buy-victim-sell"
    ELSE IF PyEq(prev_tx.direction, PyStr("sell"))
            /\ PyEq(curr_tx.direction, PyStr("sell"))
            /\ PyEq(next_tx.direction, PyStr("buy"))
    THEN "sell-victim-buy"
    ELSE ""

\* lines 398-428: the loop from Python index i on (dex[i] here is Python's
\* dex_transactions[i-1]); a non-numeric timestamp raises TypeError at 403/404
RECURSIVE ScanFrom(_, _, _)
ScanFrom(dex, i, found) ==
    IF i > Len(dex) - 2 THEN Return(found)
    ELSE LET prev_tx == dex[i]
             curr_tx == dex[i + 1]
             next_tx == dex[i + 2]
         IN  IF ~(IsNumber(curr_tx.timestamp) /\ IsNumber(prev_tx.timestamp)
                  /\ IsNumber(next_tx.timestamp))
             THEN Raise("TypeError")
             ELSE LET time_diff_prev == Abs(curr_tx.timestamp.v - prev_tx.timestamp.v)
                      time_diff_next == Abs(next_tx.timestamp.v - curr_tx.timestamp.v)
                      type == PatternOf(prev_tx, curr_tx, next_tx)
                  IN  IF WithinWindow(time_diff_prev, time_diff_next) /\ type # ""
                      THEN ScanFrom(dex, i + 1, Append(found,
                               [type |-> type,
                                transactions |-> <<prev_tx, curr_tx, next_tx>>,
                                timeDiffs |-> <<time_diff_prev, time_diff_next>>]))
                      ELSE ScanFrom(dex, i + 1, found)

detect_sandwich_patterns(txs) == ScanFrom(DexTransactions(txs), 1, <<>>)

----------------------------------------------------------------------------
(* The pattern matcher on its own: Init draws a classified sequence, the   *)
(* one action applies detect_sandwich_patterns to it.                      *)

\* longest classified sequence handed to the matcher
MaxClassified == 5

SigNames == <<"sig1", "sig2", "sig3", "sig4", "sig5", "sig6", "sig7", "sig8">>

\* timestamps of the classified transactions: gaps of 0, 30, 31 and 61 occur
MatcherTimestamps == {0, 30, 61}

\* (isDex, direction, timestamp) of one classified transaction
MatcherShapes ==
    ({TRUE} \X {PyStr("buy"), PyStr("sell")} \X MatcherTimestamps)
    \cup {<<FALSE, PyStr("buy"), 30>>, <<TRUE, None, 30>>}

\* a sequence of shapes as processed_transactions: signatures are unique
Classified(shapes) ==
    [i \in 1..Len(shapes) |->
        [signature |-> PyStr(SigNames[i]),
         timestamp |-> PyInt(shapes[i][3]),
         isDex |-> shapes[i][1],
         direction |-> shapes[i][2]]]

MatcherInputs ==
    UNION {[1..n -> MatcherShapes] : n \in 0..MaxClassified}

InitMatcher ==
    /\ pc = "matcher_input"
    /\ \E shapes \in MatcherInputs : processed_transactions = Classified(shapes)
    /\ potential_sandwiches = <<>>
    /\ request = NoRequest
    /\ token_address = None
    /\ lookback_limit = None
    /\ transactions = <<>>
    /\ idx = 0
    /\ listCalls = <<>>
    /\ detailCalls = <<>>
    /\ response = NoResponse

RunMatcher ==
    /\ pc = "matcher_input"
    /\ LET r == detect_sandwich_patterns(processed_transactions)
       IN  /\ potential_sandwiches' = r.value
           /\ pc' = IF r.raised = "" THEN "matcher_done" ELSE "matcher_raised"
    /\ UNCHANGED <<request, token_address, lookback_limit, transactions, idx,
                   processed_transactions, listCalls, detailCalls, response>>

NextMatcher == RunMatcher

SpecMatcher == InitMatcher /\ [][NextMatcher]_vars

----------------------------------------------------------------------------
(* Properties of the pattern matcher *)

\* the DEX-sequence of the classified input: its entries with isDex and a
\* direction, in order
DexSequence ==
    SelectSeq(processed_transactions,
              LAMBDA t : t.isDex = TRUE /\ t.direction.type # "NoneType")

SigOf(t) == t.signature.v

\* position in processed_transactions of the transaction signed s
PositionOf(s) ==
    CHOOSE p \in 1..Len(processed_transactions) :
        SigOf(processed_transactions[p]) = s

GapBefore(dex, i) == Abs(dex[i].timestamp.v - dex[i - 1].timestamp.v)

GapAfter(dex, i) == Abs(dex[i + 1].timestamp.v - dex[i].timestamp.v)

Directions(a, b, c) == <<a.direction.v, b.direction.v, c.direction.v>>

\* the triple centred on index i of dex is a sandwich within the window
Qualifies(dex, i) ==
    /\ GapBefore(dex, i) <= SandwichWindow
    /\ GapAfter(dex, i) <= SandwichWindow
    /\ Directions(dex[i - 1], dex[i], dex[i + 1])
          \in {<<"buy", "buy", "sell">>, <<"sell", "sell", "buy">>}

ExpectedFinding(dex, i) ==
    [type |-> IF dex[i].direction.v = "buy" THEN "buy-victim-sell"
              ELSE "sell-victim-buy",
     transactions |-> <<dex[i - 1], dex[i], dex[i + 1]>>,
     timeDiffs |-> <<GapBefore(dex, i), GapAfter(dex, i)>>]

Interior(dex) == 2..(Len(dex) - 1)

VictimSig(f) == SigOf(f.transactions[2])

\* C1: an interior index i of the DEX-sequence has a finding iff both gaps
\* are at most the window (30) and the directions are (buy, buy, sell) or
\* (sell, sell, buy); the finding has the kind, leader = prev, victim =
\* curr, trailer = next and the two gaps; nothing else is a finding and an
\* index has at most one.
C1_FindingIffPatternInWindow ==
    pc = "matcher_done" =>
        LET dex == DexSequence
            F == potential_sandwiches
        IN  /\ \A i \in Interior(dex) :
                   Qualifies(dex, i)
                   <=> \E k \in DOMAIN F : VictimSig(F[k]) = SigOf(dex[i])
            /\ \A k \in DOMAIN F :
                   \E i \in Interior(dex) :
                       /\ Qualifies(dex, i)
                       /\ F[k] = ExpectedFinding(dex, i)
            /\ \A k1, k2 \in DOMAIN F :
                   VictimSig(F[k1]) = VictimSig(F[k2]) => k1 = k2

\* a finding with a gap of exactly 30, and a (sell, sell, buy) triple with a
\* gap of 31 that has none
C1_Witness ==
    /\ pc = "matcher_done"
    /\ \E k \in DOMAIN potential_sandwiches :
           potential_sandwiches[k].timeDiffs[1] = 30
    /\ \E i \in Interior(DexSequence) :
           /\ Directions(DexSequence[i - 1], DexSequence[i], DexSequence[i + 1])
                = <<"sell", "sell", "buy">>
           /\ GapBefore(DexSequence, i) = 31
           /\ GapAfter(DexSequence, i) <= 30
           /\ \A k \in DOMAIN potential_sandwiches :
                  VictimSig(potential_sandwiches[k]) # SigOf(DexSequence[i])

IsDexAndDirected(t) == t.isDex = TRUE /\ t.direction.type # "NoneType"

\* positions of the three transactions of a finding
Positions(f) == [j \in 1..3 |-> PositionOf(SigOf(f.transactions[j]))]

\* only transactions that are not DEX-classified lie strictly between p and q
OnlySkippedBetween(p, q) ==
    \A r \in (p + 1)..(q - 1) : ~IsDexAndDirected(processed_transactions[r])

\* C2: the three transactions of a finding all have isDex and a direction;
\* a transaction without never belongs to a finding, and never separates a
\* triple (the triple around it is still matched) or joins one.
C2_OnlyDexTransactions ==
    pc = "matcher_done" =>
        LET T == processed_transactions
            F == potential_sandwiches
        IN  /\ \A k \in DOMAIN F : \A j \in 1..3 :
                   /\ IsDexAndDirected(F[k].transactions[j])
                   /\ F[k].transactions[j] = T[Positions(F[k])[j]]
            /\ \A k \in DOMAIN F :
                   LET p == Positions(F[k])
                   IN  /\ p[1] < p[2] /\ p[2] < p[3]
                       /\ OnlySkippedBetween(p[1], p[2])
                       /\ OnlySkippedBetween(p[2], p[3])
            /\ \A p1, p2, p3 \in DOMAIN T :
                   ( /\ p1 < p2 /\ p2 < p3
                     /\ IsDexAndDirected(T[p1])
                     /\ IsDexAndDirected(T[p2])
                     /\ IsDexAndDirected(T[p3])
                     /\ OnlySkippedBetween(p1, p2)
                     /\ OnlySkippedBetween(p2, p3)
                     /\ Qualifies(<<T[p1], T[p2], T[p3]>>, 2) )
                   => \E k \in DOMAIN F : Positions(F[k]) = <<p1, p2, p3>>

\* a finding whose members are separated in the input by a transaction with
\* isDex false and by one with direction None
C2_Witness ==
    /\ pc = "matcher_done"
    /\ \E k \in DOMAIN potential_sandwiches :
           LET p == Positions(potential_sandwiches[k])
           IN  /\ \E r \in p[1]..p[3] : ~processed_transactions[r].isDex
               /\ \E r \in p[1]..p[3] :
                      processed_transactions[r].direction.type = "NoneType"

\* the findings that reference the transaction signed s
FindingsWith(s) ==
    {k \in DOMAIN potential_sandwiches :
        \E j \in 1..3 : SigOf(potential_sandwiches[k].transactions[j]) = s}

RoleIn(s, k) ==
    CHOOSE j \in 1..3 : SigOf(potential_sandwiches[k].transactions[j]) = s

\* C9: a transaction is in at most two findings of one call, and then as the
\* trailer of one and the leader of the other; the windows centred on two
\* consecutive DEX-sequence indices never both emit; no victim is a leader
\* or trailer of another finding.
C9_AtMostTwoFindingsPerTransaction ==
    pc = "matcher_done" =>
        LET dex == DexSequence
            F == potential_sandwiches
        IN  /\ \A i \in DOMAIN dex :
                   LET s == SigOf(dex[i])
                       K == FindingsWith(s)
                   IN  /\ Cardinality(K) <= 2
                       /\ Cardinality(K) = 2 =>
                              {RoleIn(s, k) : k \in K} = {1, 3}
                       /\ (\E k \in K : RoleIn(s, k) = 2) => Cardinality(K) = 1
            /\ \A i \in 1..(Len(dex) - 1) :
                   ~ /\ \E k \in DOMAIN F : VictimSig(F[k]) = SigOf(dex[i])
                     /\ \E k \in DOMAIN F : VictimSig(F[k]) = SigOf(dex[i + 1])

\* a transaction that is the trailer of one finding and the leader of another
C9_Witness ==
    /\ pc = "matcher_done"
    /\ \E i \in DOMAIN DexSequence :
           LET s == SigOf(DexSequence[i])
           IN  /\ Cardinality(FindingsWith(s)) = 2
               /\ {RoleIn(s, k) : k \in FindingsWith(s)} = {1, 3}

----------------------------------------------------------------------------
(* The /analyze handler, src/app.py 336-391 *)

\* longest listing the provider returns
MaxListed == 3

TokenMint == PyStr("TokenMint")

OtherMint == PyStr("OtherMint")

\* the request bodies: tokenAddress absent, empty or given; lookbackLimit
\* absent, null, a number, a string of characters, or a list
Requests ==
    [tokenAddress : {Missing, PyStr(""), TokenMint},
     lookbackLimit : {Missing, None, PyInt(0), PyInt(2000),
                      PyStr(<<"2", "0", "0", "0">>), PyStr(<<"-", "5">>),
                      PyStr(<<"a", "b", "c">>), PyList}]

\* the summaries of a listing: signed or not, with or without a timestamp
Summaries ==
    {[signature |-> PyStr("sigA"), timestamp |-> PyInt(0)],
     [signature |-> PyStr("sigB"), timestamp |-> PyInt(10)],
     [signature |-> PyStr("sigA"), timestamp |-> None],
     [signature |-> None, timestamp |-> PyInt(20)]}

ListingOutcomes ==
    {[kind |-> "RequestException", items |-> <<>>],
     [kind |-> "not_a_list", items |-> <<>>]}
    \cup {[kind |-> "list", items |-> l] :
             l \in UNION {[1..n -> Summaries] : n \in 0..MaxListed}}

Transfer(mint, transferType, amount) ==
    [isDict |-> TRUE, mint |-> mint, transferType |-> transferType,
     tokenAmount |-> [isDict |-> TRUE, amount |-> amount]]

TxData(successful, instructions, items) ==
    [successful |-> successful, instructions |-> instructions,
     tokenTransfers |-> [isList |-> TRUE, items |-> items]]

\* the details the provider serves in the handler's runs: a swap into the
\* token on a DEX, a swap out of it, a DEX call without transfers, a plain
\* transfer and a failed swap
ServedDetails ==
    {TxData(TRUE, <<"DexProgram1">>,
            <<Transfer(OtherMint, "transfer", "5"), Transfer(TokenMint, "transfer", "7")>>),
     TxData(TRUE, <<"System", "DexProgram2">>,
            <<Transfer(TokenMint, "transfer", "7"), Transfer(OtherMint, "transfer", "5")>>),
     TxData(TRUE, <<"DexProgram1">>, <<>>),
     TxData(TRUE, <<"System">>, <<Transfer(TokenMint, "transfer", "7")>>),
     TxData(FALSE, <<"DexProgram1">>,
            <<Transfer(OtherMint, "transfer", "5"), Transfer(TokenMint, "transfer", "7")>>)}

NoTxData == TxData(TRUE, <<>>, <<>>)

DetailOutcomes ==
    {[kind |-> "RequestException", tx_data |-> NoTxData],
     [kind |-> "no_data", tx_data |-> NoTxData],
     [kind |-> "not_a_dict", tx_data |-> NoTxData]}
    \cup {[kind |-> "ok", tx_data |-> d] : d \in ServedDetails}

\* data.get(key, default), lines 339-340
Get(value, default) == IF value.type = "missing" THEN default ELSE value

BadRequest(message) ==
    [NoResponse EXCEPT !.code = 400, !.error = message]

\* an exception that leaves the view function: Flask answers 500
Unhandled(exception) ==
    [NoResponse EXCEPT !.code = 500, !.raised = exception]

\* lines 390-391
ErrorResponse(exception) ==
    [NoResponse EXCEPT !.code = 500, !.status = "error", !.error = exception]

\* lines 378-388
SuccessResponse(listed, processed, sandwiches) ==
    [NoResponse EXCEPT
        !.code = 200, !.status = "success",
        !.stats = [totalTransactions |-> Len(listed),
                   dexTransactions |-> Len(SelectSeq(processed, LAMBDA t : t.isDex)),
                   potentialAttacks |-> Len(sandwiches)]]

Init ==
    /\ pc = "idle"
    /\ request = NoRequest
    /\ token_address = None
    /\ lookback_limit = None
    /\ transactions = <<>>
    /\ idx = 0
    /\ processed_transactions = <<>>
    /\ potential_sandwiches = <<>>
    /\ listCalls = <<>>
    /\ detailCalls = <<>>
    /\ response = NoResponse

\* lines 338-348: read the body, clamp the limit, require the token
Validate ==
    /\ pc = "idle"
    /\ \E data \in Requests :
        LET token == Get(data.tokenAddress, None)
            raw == Get(data.lookbackLimit, PyInt(DEFAULT_LOOKBACK_LIMIT))
            limit == ClampLimit(raw)
        IN  /\ request' = data
            /\ token_address' = token
            /\ IF limit.raised = "ValueError"
               THEN /\ lookback_limit' = raw
                    /\ response' = BadRequest("Invalid lookback limit")
                    /\ pc' = "done"
               ELSE IF limit.raised # ""
               THEN /\ lookback_limit' = raw
                    /\ response' = Unhandled(limit.raised)
                    /\ pc' = "done"
               ELSE IF ~Truthy(token)
               THEN /\ lookback_limit' = PyInt(limit.value)
                    /\ response' = BadRequest("Token address is required")
                    /\ pc' = "done"
               ELSE /\ lookback_limit' = PyInt(limit.value)
                    /\ response' = response
                    /\ pc' = "list"
    /\ UNCHANGED <<transactions, idx, processed_transactions,
                   potential_sandwiches, listCalls, detailCalls>>

\* line 352: the listing call; an exception goes to the except of line 390
List ==
    /\ pc = "list"
    /\ \E outcome \in ListingOutcomes :
        LET listed == fetch_token_transactions(outcome)
        IN  /\ listCalls' = Append(listCalls,
                   [limit |-> lookback_limit.v, outcome |-> outcome.kind,
                    answered |-> Len(outcome.items)])
            /\ transactions' = listed.value
            /\ IF listed.raised # ""
               THEN /\ response' = ErrorResponse(listed.raised)
                    /\ pc' = "done"
               ELSE /\ response' = response
                    /\ pc' = "loop"
    /\ idx' = 0
    /\ UNCHANGED <<request, token_address, lookback_limit, processed_transactions,
                   potential_sandwiches, detailCalls>>

\* lines 357-360: a summary without a signature is passed over
SkipUnsigned ==
    /\ pc = "loop"
    /\ idx < Len(transactions)
    /\ ~Truthy(transactions[idx + 1].signature)
    /\ idx' = idx + 1
    /\ UNCHANGED <<pc, request, token_address, lookback_limit, transactions,
                   processed_transactions, potential_sandwiches, listCalls,
                   detailCalls, response>>

\* lines 357-373: fetch the detail of the next summary and classify it
FetchAndClassify ==
    /\ pc = "loop"
    /\ idx < Len(transactions)
    /\ LET tx == transactions[idx + 1]
       IN  /\ Truthy(tx.signature)
           /\ \E outcome \in DetailOutcomes :
               LET tx_details == fetch_transaction_details(outcome)
               IN  /\ detailCalls' = Append(detailCalls,
                          [signature |-> tx.signature.v, position |-> idx + 1,
                           outcome |-> outcome.kind])
                   /\ processed_transactions' =
                          IF ~Truthy(tx_details) THEN processed_transactions
                          ELSE Append(processed_transactions,
                                      ProcessedTx(tx, tx_details.v, token_address))
    /\ idx' = idx + 1
    /\ UNCHANGED <<pc, request, token_address, lookback_limit, transactions,
                   potential_sandwiches, listCalls, response>>

\* lines 376-391: match the patterns and answer
Respond ==
    /\ pc = "loop"
    /\ idx = Len(transactions)
    /\ LET found == detect_sandwich_patterns(processed_transactions)
       IN  IF found.raised # ""
           THEN /\ potential_sandwiches' = <<>>
                /\ response' = ErrorResponse(found.raised)
           ELSE /\ potential_sandwiches' = found.value
                /\ response' = SuccessResponse(transactions, processed_transactions,
                                               found.value)
    /\ pc' = "done"
    /\ UNCHANGED <<request, token_address, lookback_limit, transactions, idx,
                   processed_transactions, listCalls, detailCalls>>

Next == Validate \/ List \/ SkipUnsigned \/ FetchAndClassify \/ Respond

Spec == Init /\ [][Next]_vars

----------------------------------------------------------------------------
(* Properties of the handler *)

\* C3: each signature appears at most once in the classified transactions of
\* a detection call: of a signature listed more than once only the first
\* occurrence is fetched and classified.
C3_SignaturesClassifiedOnce ==
    /\ \A i, j \in DOMAIN processed_transactions :
          SigOf(processed_transactions[i]) = SigOf(processed_transactions[j])
          => i = j
    /\ \A i, j \in DOMAIN detailCalls :
          detailCalls[i].signature = detailCalls[j].signature
          => detailCalls[i].position = detailCalls[j].position

\* C4: the limit of every listing call is at least 1 and at most
\* maxLookbackLimit.
C4_LimitWithinOneAndMax ==
    \A k \in DOMAIN listCalls :
        1 <= listCalls[k].limit /\ listCalls[k].limit <= MAX_LOOKBACK_LIMIT

\* C5: a summary whose timestamp is missing or not a number is dropped before
\* its detail is fetched: no detail call is made for it, it is not among the
\* classified transactions, and the call, once the listing is made, returns
\* a detection result.
C5_UntimedSummaryDroppedBeforeFetch ==
    /\ \A k \in DOMAIN detailCalls :
          IsNumber(transactions[detailCalls[k].position].timestamp)
    /\ \A i \in DOMAIN processed_transactions :
          IsNumber(processed_transactions[i].timestamp)
    /\ (pc = "done" /\ listCalls # <<>>) => response.code = 200

\* C6: a detail fetch that failed at the transport level is attempted again
\* before the transaction is dropped: by the end of the call every failed
\* attempt was followed by another attempt for the same summary.
C6_FailedFetchRetried ==
    pc = "done" =>
        \A k \in DOMAIN detailCalls :
            detailCalls[k].outcome = "RequestException"
            => \E r \in DOMAIN detailCalls :
                  r > k /\ detailCalls[r].position = detailCalls[k].position

\* the value parses as a positive integer
PositiveInteger(x) ==
    \/ x.type = "int" /\ x.v > 0
    \/ /\ x.type = "str"
       /\ IntOfChars(x.v).raised = ""
       /\ IntOfChars(x.v).value > 0

\* a request the contract calls invalid: no or an empty tokenAddress, or a
\* lookbackLimit that is given and is no positive integer
InvalidInput(data) ==
    \/ ~Truthy(Get(data.tokenAddress, None))
    \/ data.lookbackLimit.type # "missing" /\ ~PositiveInteger(data.lookbackLimit)

\* C7: a request with invalid input ends in the 400 answer, with no exception
\* leaving the handler, and makes no call to the provider.
C7_InvalidInputIsBadRequest ==
    (pc # "idle" /\ InvalidInput(request)) =>
        /\ listCalls = <<>>
        /\ detailCalls = <<>>
        /\ pc = "done" => (response.code = 400 /\ response.raised = "")

\* the listing call failed, or answered with no list or an empty one
ListingFailedOrEmpty ==
    /\ Len(listCalls) = 1
    /\ \/ listCalls[1].outcome \in {"RequestException", "not_a_list"}
       \/ listCalls[1].answered = 0

\* C8: when the listing call fails or answers with an empty or non-list
\* response, the call returns success with no classified transactions, no
\* findings and stats of zero, and makes no detail call.
C8_FailedListingIsEmptySuccess ==
    ListingFailedOrEmpty =>
        /\ pc \in {"loop", "done"}
        /\ detailCalls = <<>>
        /\ processed_transactions = <<>>
        /\ pc = "done" =>
              /\ response.code = 200
              /\ response.status = "success"
              /\ potential_sandwiches = <<>>
              /\ response.stats = [totalTransactions |-> 0, dexTransactions |-> 0,
                                   potentialAttacks |-> 0]

\* the handler has answered a request whose listing call failed
C8_Witness ==
    /\ pc = "done"
    /\ Len(listCalls) = 1
    /\ listCalls[1].outcome = "RequestException"
    /\ response.status = "success"

----------------------------------------------------------------------------
(* The classifier in the handler's loop: each step classifies one detail   *)
(* drawn from every shape of tokenTransfers up to MaxTransfers, as lines   *)
(* 366-373 do, and the matcher then runs on what was classified.           *)

\* longest tokenTransfers list of a detail
MaxTransfers == 2

\* every transfer: either mint, every transferType the code tests and one
\* it does not, a zero and a non-zero amount; a tokenAmount that is no
\* dictionary; an element that is no dictionary
ClassifierTransfers ==
    {Transfer(m, t, a) : m \in {TokenMint, OtherMint},
                         t \in {"transfer", "mintTo", "burn", "unknown"},
                         a \in {"0", "7"}}
    \cup {[Transfer(TokenMint, "transfer", "7") EXCEPT !.tokenAmount.isDict = FALSE],
          [Transfer(OtherMint, "transfer", "7") EXCEPT !.isDict = FALSE]}

ClassifierDetails ==
    {TxData(TRUE, i, l) :
        i \in {<<"System">>, <<"System", "DexProgram1">>},
        l \in UNION {[1..n -> ClassifierTransfers] : n \in 0..MaxTransfers}}
    \cup {TxData(FALSE, <<"DexProgram1">>,
                 <<Transfer(OtherMint, "transfer", "5"), Transfer(TokenMint, "transfer", "7")>>),
          [TxData(TRUE, <<"DexProgram1">>, <<>>) EXCEPT !.tokenTransfers.isList = FALSE]}

InitClassifier ==
    /\ pc = "classify"
    /\ request = [tokenAddress |-> TokenMint, lookbackLimit |-> Missing]
    /\ token_address = TokenMint
    /\ lookback_limit = PyInt(DEFAULT_LOOKBACK_LIMIT)
    /\ transactions = <<>>
    /\ idx = 0
    /\ processed_transactions = <<>>
    /\ potential_sandwiches = <<>>
    /\ listCalls = <<>>
    /\ detailCalls = <<>>
    /\ response = NoResponse

\* lines 366-373 on the next summary, whose detail was fetched
ClassifyNext ==
    /\ pc = "classify"
    /\ idx < MaxListed
    /\ \E tx_data \in ClassifierDetails :
        processed_transactions' =
            Append(processed_transactions,
                   ProcessedTx([signature |-> PyStr(SigNames[idx + 1]),
                                timestamp |-> PyInt(10 * idx)],
                               tx_data, token_address))
    /\ idx' = idx + 1
    /\ UNCHANGED <<pc, request, token_address, lookback_limit, transactions,
                   potential_sandwiches, listCalls, detailCalls, response>>

\* line 376 on the transactions classified so far
MatchClassified ==
    /\ pc = "classify"
    /\ LET found == detect_sandwich_patterns(processed_transactions)
       IN  /\ potential_sandwiches' = found.value
           /\ pc' = IF found.raised = "" THEN "classified" ELSE "raised"
    /\ UNCHANGED <<request, token_address, lookback_limit, transactions, idx,
                   processed_transactions, listCalls, detailCalls, response>>

NextClassifier == ClassifyNext \/ MatchClassified

SpecClassifier == InitClassifier /\ [][NextClassifier]_vars

\* C10: analyze_swap_direction never returns sell, so the DEX-sequence of a
\* call whose directions come from it holds only buy entries and the matcher
\* emits no finding.
C10_ClassifierNeverSells ==
    /\ \A i \in DOMAIN processed_transactions :
          ~PyEq(processed_transactions[i].direction, PyStr("sell"))
    /\ \A i \in DOMAIN DexSequence : DexSequence[i].direction.v = "buy"
    /\ pc = "classified" => potential_sandwiches = <<>>

\* the matcher ran on three DEX transactions within the window, all
\* classified buy
C10_Witness ==
    /\ pc = "classified"
    /\ Len(DexSequence) = 3
    /\ \A i \in DOMAIN DexSequence : DexSequence[i].direction.v = "buy"
    /\ potential_sandwiches = <<>>

====
